---- MODULE Spec2Model ----
(***************************************************************************)
(* A model of purple-air-gui: the sensor telemetry decoders of             *)
(* src/sensor_data.rs (status codes, the non-standard timestamp, the       *)
(* LocalSensorData schema and its derived Serialize), the hardware list    *)
(* of src/main.rs, and the fetch / deliver / reschedule cycle driven by    *)
(* PurpleAir::update.                                                      *)
(*                                                                         *)
(* Strings are sequences of one-character strings.  A JSON value, a Rust   *)
(* value and a decoder result are records with the same fields in every    *)
(* case, so that any two of them can be compared.                          *)
(***************************************************************************)
EXTENDS Integers, Sequences, FiniteSets, TLC

VARIABLES
    \* PurpleAir component and its event loop (src/main.rs)
    sensor_data, futures, mailbox, running, initialized, fetches, applied,
    lastEvent, lastDecoded, rendered,
    \* one call of parse_status / parse_optional_status
    status_in, status_out,
    \* one call of parse_nonstandard_datetime
    dt_in, dt_out,
    \* one decode / encode / decode of a LocalSensorData document
    doc, decoded, wire, redecoded,
    \* one call of hardware_on_the_board
    hw_in, hw_out

loopVars == <<sensor_data, futures, mailbox, running, initialized, fetches,
              applied, lastEvent, lastDecoded, rendered>>
statusVars == <<status_in, status_out>>
dtVars == <<dt_in, dt_out>>
docVars == <<doc, decoded, wire, redecoded>>
hwVars == <<hw_in, hw_out>>
vars == <<loopVars, statusVars, dtVars, docVars, hwVars>>

----------------------------------------------------------------------------
(* Bounds of the model.                                                    *)

\* status integers 0..MaxStatusInput are presented to the status decoders
MaxStatusInput == 300
\* hardware-discovery strings of up to MaxHwLen characters are split
MaxHwLen == 4
\* at most MaxRemoved optional keys are removed from a document at once
MaxRemoved == 2
\* background fetches completed in one run of the refresh loop
MaxFetches == 3

----------------------------------------------------------------------------
(* JSON values (serde_json) and Rust values.                               *)

NoDate == <<>>

Val(t, n, s, dt, e) == [t |-> t, n |-> n, s |-> s, dt |-> dt, e |-> e]

\* JSON: a non-negative integer literal, a negative one, a literal with a
\* fraction (n counts tenths), a string, null; JMissing is an absent key.
JUint(n) == Val("uint", n, <<>>, NoDate, "")
JNint(n) == Val("nint", n, <<>>, NoDate, "")
JFloat(n) == Val("float", n, <<>>, NoDate, "")
JStr(s) == Val("str", 0, s, NoDate, "")
JNull == Val("null", 0, <<>>, NoDate, "")
JMissing == Val("missing", 0, <<>>, NoDate, "")

\* Rust: String, u64, i64, u32, f64 (n counts tenths), DateTime<Utc>,
\* Status, and None of any Option; Some(x) is x.
VString(s) == Val("String", 0, s, NoDate, "")
VU64(n) == Val("u64", n, <<>>, NoDate, "")
VI64(n) == Val("i64", n, <<>>, NoDate, "")
VU32(n) == Val("u32", n, <<>>, NoDate, "")
VF64(n) == Val("f64", n, <<>>, NoDate, "")
VDateTime(dt) == Val("DateTime", 0, <<>>, dt, "")
VStatus(e) == Val("Status", 0, <<>>, NoDate, e)
VNone == Val("None", 0, <<>>, NoDate, "")

\* Result<T, D::Error>
Ok(v) == [ok |-> TRUE, v |-> v, err |-> ""]
Err(msg) == [ok |-> FALSE, v |-> VNone, err |-> msg]

\* the primitive Deserialize implementations, as serde_json applies them
DeU64(j) == IF j.t = "uint" THEN Ok(VU64(j.n)) ELSE Err("invalid type")
DeI64(j) == IF j.t \in {"uint", "nint"} THEN Ok(VI64(j.n)) ELSE Err("invalid type")
DeU32(j) == IF j.t = "uint" THEN Ok(VU32(j.n)) ELSE Err("invalid type")
DeF64(j) ==
    CASE j.t \in {"uint", "nint"} -> Ok(VF64(j.n * 10))
      [] j.t = "float" -> Ok(VF64(j.n))
      [] OTHER -> Err("invalid type")
DeString(j) == IF j.t = "str" THEN Ok(VString(j.s)) ELSE Err("invalid type")

DePrimitive(ty, j) ==
    CASE ty = "u64" -> DeU64(j)
      [] ty = "i64" -> DeI64(j)
      [] ty = "u32" -> DeU32(j)
      [] ty = "f64" -> DeF64(j)
      [] ty = "String" -> DeString(j)

\* Option<T>: null is None, anything else is handed to T
DeOption(ty, j) == IF j.t = "null" THEN Ok(VNone) ELSE DePrimitive(ty, j)

----------------------------------------------------------------------------
(* Status (src/sensor_data.rs:17-58).                                      *)

\* `number as u8`: the low eight bits
AsU8(number) == number % 256

\* Status::from_u8: Option<Status>
from_u8(status_number) ==
    CASE status_number = 0 -> VStatus("NotConfigured")
      [] status_number = 1 -> VStatus("InProgress")
      [] status_number = 2 -> VStatus("Success")
      [] status_number = 3 -> VStatus("Error")
      [] OTHER -> VNone

\* ok_or_else(|| custom("Invalid status number"))
StatusOrError(number) ==
    LET s == from_u8(AsU8(number))
    IN  IF s = VNone THEN Err("Invalid status number") ELSE Ok(s)

parse_status(j) ==
    LET number == DeU64(j)
    IN  IF ~number.ok THEN number ELSE StatusOrError(number.v.n)

parse_optional_status(j) ==
    LET opt == DeOption("u64", j)
    IN  CASE ~opt.ok -> opt
          [] opt.v = VNone -> Ok(VNone)
          [] OTHER -> StatusOrError(opt.v.n)

NotRun == [fn |-> "none", r |-> Err("")]

\* integers well above one byte, below TLC's 32-bit limit
LargeStatusInputs == {65536, 65539, 16777216, 2147483392, 2147483647}

StatusInputs ==
    {JUint(n) : n \in (0..MaxStatusInput) \cup LargeStatusInputs}
    \cup {JNull, JNint(-1), JFloat(15), JStr(<<"2">>)}

StatusInit ==
    /\ status_in \in StatusInputs
    /\ status_out = NotRun

StatusIdle ==
    /\ status_in = JNull
    /\ status_out = NotRun

CallParseStatus ==
    /\ status_out = NotRun
    /\ status_out' = [fn |-> "parse_status", r |-> parse_status(status_in)]
    /\ UNCHANGED status_in

CallParseOptionalStatus ==
    /\ status_out = NotRun
    /\ status_out' = [fn |-> "parse_optional_status",
                      r |-> parse_optional_status(status_in)]
    /\ UNCHANGED status_in

----------------------------------------------------------------------------
(* The timestamp (src/sensor_data.rs:4-15).                                *)

Digits == <<"0", "1", "2", "3", "4", "5", "6", "7", "8", "9">>

IsDigit(c) == \E i \in 1..10 : Digits[i] = c

DigitValue(c) == (CHOOSE i \in 1..10 : Digits[i] = c) - 1

Tail2(s, k) == SubSeq(s, k + 1, Len(s))

\* str::trim_end_matches('z'): every trailing 'z' goes
RECURSIVE trim_end_matches_z(_)
trim_end_matches_z(s) ==
    IF s # <<>> /\ s[Len(s)] = "z"
    THEN trim_end_matches_z(SubSeq(s, 1, Len(s) - 1))
    ELSE s

\* str::trim_start, for the white space of the inputs (a blank)
RECURSIVE trim_start(_)
trim_start(s) ==
    IF s # <<>> /\ s[1] = " " THEN trim_start(Tail(s)) ELSE s

\* the number of leading digits of s, at most max
RECURSIVE LeadingDigits(_, _)
LeadingDigits(s, max) ==
    IF max = 0 \/ s = <<>> \/ ~IsDigit(s[1])
    THEN 0
    ELSE 1 + LeadingDigits(Tail(s), max - 1)

RECURSIVE DecimalValue(_)
DecimalValue(s) ==
    IF s = <<>> THEN 0
    ELSE DecimalValue(SubSeq(s, 1, Len(s) - 1)) * 10 + DigitValue(s[Len(s)])

Scanned(v, rest) == [ok |-> TRUE, v |-> v, rest |-> rest]
NoScan == [ok |-> FALSE, v |-> 0, rest |-> <<>>]

\* chrono format::scan::number(s, 1, max): one to max digits
ScanNumber(s, max) ==
    LET k == LeadingDigits(s, max)
    IN  IF k = 0 THEN NoScan
        ELSE Scanned(DecimalValue(SubSeq(s, 1, k)), Tail2(s, k))

\* the items of the format "%Y/%m/%dT%H:%M:%S" (chrono StrftimeItems)
Numeric(width, signed) == [lit |-> "", width |-> width, signed |-> signed]
Literal(c) == [lit |-> c, width |-> 0, signed |-> FALSE]

DateTimeFormat ==
    <<Numeric(4, TRUE), Literal("/"), Numeric(2, FALSE), Literal("/"),
      Numeric(2, FALSE), Literal("T"), Numeric(2, FALSE), Literal(":"),
      Numeric(2, FALSE), Literal(":"), Numeric(2, FALSE)>>

\* chrono Item::Numeric: white space is skipped; a signed field (%Y) takes
\* a sign and then any number of digits, an unsigned one up to width digits
ScanNumeric(s, width, signed) ==
    LET t == trim_start(s)
    IN  CASE signed /\ t # <<>> /\ t[1] = "-" ->
               LET r == ScanNumber(Tail(t), Len(t))
               IN  IF r.ok THEN Scanned(0 - r.v, r.rest) ELSE NoScan
          [] signed /\ t # <<>> /\ t[1] = "+" -> ScanNumber(Tail(t), Len(t))
          [] OTHER -> ScanNumber(t, width)

\* chrono Item::Literal
ScanLiteral(s, c) ==
    IF s # <<>> /\ s[1] = c THEN Scanned(0, Tail(s)) ELSE NoScan

ScanItem(item, s) ==
    IF item.lit # ""
    THEN ScanLiteral(s, item.lit)
    ELSE ScanNumeric(s, item.width, item.signed)

\* chrono format::parse: the items consume the input from the left; got
\* collects the numbers read.  (Each item's scan is bound as an element of
\* a one-element set: it is evaluated once.)
RECURSIVE ParseItems(_, _, _)
ParseItems(items, s, got) ==
    IF items = <<>>
    THEN [ok |-> s = <<>>, got |-> got]
    ELSE CHOOSE out \in
             {IF r.ok
              THEN ParseItems(Tail(items), r.rest,
                              IF Head(items).lit = "" THEN Append(got, r.v)
                              ELSE got)
              ELSE [ok |-> FALSE, got |-> <<>>] :
                  r \in {ScanItem(Head(items), s)}} : TRUE

IsLeapYear(y) == (y % 4 = 0 /\ y % 100 # 0) \/ y % 400 = 0

DaysInMonth(y, m) ==
    CASE m = 2 -> IF IsLeapYear(y) THEN 29 ELSE 28
      [] m \in {4, 6, 9, 11} -> 30
      [] OTHER -> 31

\* Parsed::to_naive_datetime_with_offset: the fields name a real date and
\* time of day (second 60 is a leap second)
ValidDateTime(y, mo, d, h, mi, s) ==
    /\ mo \in 1..12
    /\ d \in 1..DaysInMonth(y, mo)
    /\ h \in 0..23
    /\ mi \in 0..59
    /\ s \in 0..60

\* NaiveDateTime::parse_from_str(s, "%Y/%m/%dT%H:%M:%S")
parse_from_str(s) ==
    CHOOSE out \in
        {CASE ~p.ok -> Err("input does not match the format")
           [] ~ValidDateTime(p.got[1], p.got[2], p.got[3], p.got[4],
                             p.got[5], p.got[6]) ->
                Err("input is out of range")
           [] OTHER -> Ok(VDateTime(p.got)) :
               p \in {ParseItems(DateTimeFormat, s, <<>>)}} : TRUE

parse_nonstandard_datetime(j) ==
    LET s == DeString(j)
    IN  IF ~s.ok THEN s ELSE parse_from_str(trim_end_matches_z(s.v.s))

\* the parts the timestamps presented to the decoder are put together from
DtYears == {<<"2", "0", "2", "5">>, <<"2", "0", "2", "4">>, <<"2", "5">>}
DtDateSeps == {"/", "-"}
DtMonths == {<<"0", "6">>, <<"6">>, <<"0", "2">>, <<"1", "3">>}
DtDays == {<<"2", "9">>, <<"3", "0">>, <<"9">>}
DtTimeSeps == {<<"T">>, <<" ">>, <<>>}
DtTimes == {<<"2", "2", ":", "4", "4", ":", "1", "4">>,
            <<"2", "4", ":", "0", "0", ":", "0", "0">>,
            <<"2", "2", ":", "4", "4", ":", "6", "0">>,
            <<"2", "2", ":", "4", "4">>,
            <<"2", "a", ":", "4", "4", ":", "1", "4">>}
DtSuffixes == {<<>>, <<"z">>, <<"z", "z">>, <<"Z">>, <<"z", "x">>,
               <<" ", "z">>}

DtInputs ==
    {y \o <<a>> \o mo \o <<a>> \o d \o t \o hms \o z :
        y \in DtYears, a \in DtDateSeps, mo \in DtMonths, d \in DtDays,
        t \in DtTimeSeps, hms \in DtTimes, z \in DtSuffixes}

\* "2025/06/29T22:44:14z"
DtExample ==
    <<"2", "0", "2", "5", "/", "0", "6", "/", "2", "9", "T",
      "2", "2", ":", "4", "4", ":", "1", "4", "z">>

DtInit ==
    /\ dt_in \in DtInputs
    /\ dt_out = NotRun

DtIdle ==
    /\ dt_in = <<>>
    /\ dt_out = NotRun

CallParseDatetime ==
    /\ dt_out = NotRun
    /\ dt_out' = [fn |-> "parse_nonstandard_datetime",
                  r |-> parse_nonstandard_datetime(JStr(dt_in))]
    /\ UNCHANGED dt_in

----------------------------------------------------------------------------
(* The hardware list (src/main.rs:41-47).                                  *)

\* the place of the first "+" of s, or 0
RECURSIVE FindPlus(_, _)
FindPlus(s, i) ==
    CASE i > Len(s) -> 0
      [] s[i] = "+" -> i
      [] OTHER -> FindPlus(s, i + 1)

\* str::split("+"): the pieces between the separators, empty ones kept
RECURSIVE split_plus(_)
split_plus(s) ==
    LET i == FindPlus(s, 1)
    IN  IF i = 0 THEN <<s>>
        ELSE <<SubSeq(s, 1, i - 1)>> \o split_plus(Tail2(s, i))

NonEmpty(piece) == piece # <<>>

\* a plausible slip: empty identifiers filtered out of the list
hardware_on_the_board_skipping_empty(hardware_discovered) ==
    LET i == FindPlus(hardware_discovered, 1)
    IN  IF i # 0
        THEN SelectSeq(split_plus(Tail2(hardware_discovered, i)), NonEmpty)
        ELSE <<>>

\* a plausible slip: the version tag is kept as the first element
hardware_on_the_board_keeping_tag(hardware_discovered) ==
    IF FindPlus(hardware_discovered, 1) = 0 THEN <<>>
    ELSE split_plus(hardware_discovered)

hardware_on_the_board(hardware_discovered) ==
    LET i == FindPlus(hardware_discovered, 1)
    IN  IF i # 0                                 \* split_once("+") is Some
        THEN split_plus(Tail2(hardware_discovered, i))
        ELSE <<>>                                \* Vec::new()

\* Vec<String>::join(", ")
RECURSIVE join_comma(_)
join_comma(v) ==
    CASE v = <<>> -> <<>>
      [] Len(v) = 1 -> v[1]
      [] OTHER -> v[1] \o <<",", " ">> \o join_comma(Tail(v))

HwChars == {"+", "A", "2"}

RECURSIVE StringsUpTo(_, _)
StringsUpTo(chars, n) ==
    IF n = 0 THEN {<<>>}
    ELSE LET shorter == StringsUpTo(chars, n - 1)
         IN  shorter \cup {Append(s, c) : s \in shorter, c \in chars}

\* "2.0+BME280+PMSX003-A+PMSX003-B"
HwExample ==
    <<"2", ".", "0", "+", "B", "M", "E", "2", "8", "0", "+",
      "P", "M", "S", "X", "0", "0", "3", "-", "A", "+",
      "P", "M", "S", "X", "0", "0", "3", "-", "B">>

HwExampleList ==
    << <<"B", "M", "E", "2", "8", "0">>,
       <<"P", "M", "S", "X", "0", "0", "3", "-", "A">>,
       <<"P", "M", "S", "X", "0", "0", "3", "-", "B">> >>

\* "2.0"
HwNoModules == <<"2", ".", "0">>

\* "2.0+"
HwTagOnly == <<"2", ".", "0", "+">>

HwInputs ==
    StringsUpTo(HwChars, MaxHwLen) \cup {HwExample, HwNoModules, HwTagOnly}

HwNotRun == [fn |-> "none", r |-> <<>>]

HwInit ==
    /\ hw_in \in HwInputs
    /\ hw_out = HwNotRun

HwIdle ==
    /\ hw_in = <<>>
    /\ hw_out = HwNotRun

CallHardwareOnTheBoard ==
    /\ hw_out = HwNotRun
    /\ hw_out' = [fn |-> "hardware_on_the_board",
                  r |-> hardware_on_the_board(hw_in)]
    /\ UNCHANGED hw_in

----------------------------------------------------------------------------
(* LocalSensorData (src/sensor_data.rs:62-360): the fields by declared     *)
(* type, the JSON key and the serde attributes of each.                    *)

StringFields ==
    {"sensor_id", "geo", "place", "version", "hardware_version",
     "hardware_discovered", "wl_state", "ssid"}
U64Fields ==
    {"mem", "memfrag", "memfb", "memcs", "id", "logging_rate", "uptime",
     "http_success", "http_sends"}
I64Fields == {"rssi"}
U32Fields == {"period"}
F64Fields == {"lat", "lon", "adc"}
DateTimeFields == {"date_time"}

\* response and response_date: present only with a data processor
OptionStringInfoFields == {"response", "response_date"}
\* Required Hardware: BME
OptionBmeU64Fields == {"current_temp_f", "current_humidity", "current_dewpoint_f"}
\* Required Hardware: BME, BME68X
OptionBmeF64Fields ==
    {"pressure", "current_temp_f_680", "current_humidity_680",
     "current_dewpoint_f_680", "pressure_680", "gas_680"}
\* Required Hardware: PMSX003-B
ChannelBFields ==
    {"p25aqic_b", "pm2_5_aqi_b", "pm1_0_cf_1_b", "p_0_3_um_b",
     "pm2_5_cf_1_b", "p_0_5_um_b", "pm10_0_cf_1_b", "p_1_0_um_b",
     "pm1_0_atm_b", "p_2_5_um_b", "pm2_5_atm_b", "p_5_0_um_b",
     "pm10_0_atm_b", "p_10_0_um_b"}
\* Required Hardware: PMSX003-A
ChannelAFields ==
    {"p25aqic", "pm2_5_aqi", "pm1_0_cf_1", "p_0_3_um", "pm2_5_cf_1",
     "p_0_5_um", "pm10_0_cf_1", "p_1_0_um", "pm1_0_atm", "p_2_5_um",
     "pm2_5_atm", "p_5_0_um", "pm10_0_atm", "p_10_0_um"}
OptionStringFields == OptionStringInfoFields \cup {"p25aqic_b", "p25aqic"}
OptionU64Fields == OptionBmeU64Fields
OptionF64Fields ==
    OptionBmeF64Fields \cup ((ChannelBFields \cup ChannelAFields)
                             \ {"p25aqic_b", "p25aqic"})

\* the "Sensor Data Fields" that depend on installed hardware
HardwareFields ==
    OptionBmeU64Fields \cup OptionBmeF64Fields \cup ChannelBFields
    \cup ChannelAFields

StatusFields ==
    {"status_ntp", "status_loc", "status_upd", "status_paa", "status_tsa",
     "status_tss_a", "status_tsb", "status_tss_b"}
OptionStatusFields == {"status_for_processor_1", "status_for_processor_2"}

OptionFields ==
    OptionStringFields \cup OptionU64Fields \cup OptionF64Fields
    \cup OptionStatusFields

Fields ==
    StringFields \cup U64Fields \cup I64Fields \cup U32Fields \cup F64Fields
    \cup DateTimeFields \cup StatusFields \cup OptionFields

MandatoryFields == Fields \ OptionFields

\* #[serde(rename = "...")]; a field without it is read from its own name
KeyOf(f) ==
    CASE f = "sensor_id" -> "SensorId"
      [] f = "date_time" -> "DateTime"
      [] f = "geo" -> "Geo"
      [] f = "mem" -> "Mem"
      [] f = "id" -> "Id"
      [] f = "logging_rate" -> "loggingrate"
      [] f = "http_success" -> "httpsuccess"
      [] f = "http_sends" -> "httpsends"
      [] f = "hardware_version" -> "hardwareversion"
      [] f = "hardware_discovered" -> "hardwarediscovered"
      [] f = "wl_state" -> "wlstate"
      [] f = "adc" -> "Adc"
      [] f = "pm2_5_aqi_b" -> "pm2.5_aqi_b"
      [] f = "pm2_5_aqi" -> "pm2.5_aqi"
      [] f = "status_ntp" -> "status_0"
      [] f = "status_loc" -> "status_1"
      [] f = "status_upd" -> "status_2"
      [] f = "status_paa" -> "status_3"
      [] f = "status_tsa" -> "status_4"
      [] f = "status_tss_a" -> "status_5"
      [] f = "status_for_processor_1" -> "status_6"
      [] f = "status_tsb" -> "status_7"
      [] f = "status_tss_b" -> "status_8"
      [] f = "status_for_processor_2" -> "status_10"
      [] OTHER -> f

TypeOf(f) ==
    CASE f \in StringFields \cup OptionStringFields -> "String"
      [] f \in U64Fields \cup OptionU64Fields -> "u64"
      [] f \in I64Fields -> "i64"
      [] f \in U32Fields -> "u32"
      [] f \in F64Fields \cup OptionF64Fields -> "f64"
      [] f \in DateTimeFields -> "DateTime"
      [] f \in StatusFields \cup OptionStatusFields -> "Status"

\* #[serde(deserialize_with = "...")]
DeserializeWith(f) ==
    CASE f \in DateTimeFields -> "parse_nonstandard_datetime"
      [] f \in StatusFields -> "parse_status"
      [] f \in OptionStatusFields -> "parse_optional_status"
      [] OTHER -> ""

\* #[serde(default)]
HasDefault(f) == f \in OptionStatusFields

\* a key the schema does not know, as newer firmware may send
UnknownKey == "pa_latency"

Keys == {KeyOf(f) : f \in Fields} \cup {UnknownKey}

----------------------------------------------------------------------------
(* The derived Deserialize of LocalSensorData.                             *)

\* a plausible slip: the hardware-dependent readings declared as plain values
MissingFieldReadingsMandatory(f) ==
    CASE HasDefault(f) -> Ok(VNone)
      [] f \in OptionStringInfoFields -> Ok(VNone)
      [] OTHER -> Err("missing field")

\* a plausible slip: #[serde(default)] left off an optional status field
MissingFieldMandatoryStatus(f) ==
    IF f \in OptionFields \ OptionStatusFields
    THEN Ok(VNone)
    ELSE Err("missing field")

\* the key is not in the document: an Option without deserialize_with is
\* None, a field with `default` takes Default::default(), any other fails
MissingField(f) ==
    CASE HasDefault(f) -> Ok(VNone)
      [] DeserializeWith(f) = "" /\ f \in OptionFields -> Ok(VNone)
      [] OTHER -> Err("missing field")

PresentField(f, j) ==
    CASE DeserializeWith(f) = "parse_nonstandard_datetime" ->
             parse_nonstandard_datetime(j)
      [] DeserializeWith(f) = "parse_status" -> parse_status(j)
      [] DeserializeWith(f) = "parse_optional_status" ->
             parse_optional_status(j)
      [] f \in OptionFields -> DeOption(TypeOf(f), j)
      [] OTHER -> DePrimitive(TypeOf(f), j)

DecodeField(f, d) ==
    IF d[KeyOf(f)] = JMissing
    THEN MissingField(f)
    ELSE PresentField(f, d[KeyOf(f)])

NoSnapshot == [f \in Fields |-> VNone]

DataOk(data) == [ok |-> TRUE, data |-> data, err |-> ""]
DataErr(msg) == [ok |-> FALSE, data |-> NoSnapshot, err |-> msg]

\* serde_json::from_str::<LocalSensorData>: every field decodes, or the
\* whole decode fails; keys the schema does not name are skipped
from_str(d) ==
    IF \E f \in Fields : ~DecodeField(f, d).ok
    THEN DataErr("field error")
    ELSE DataOk([f \in Fields |-> DecodeField(f, d).v])

----------------------------------------------------------------------------
(* The derived Serialize of LocalSensorData and of Status, and chrono's    *)
(* Serialize of DateTime<Utc>.                                             *)

TwoDigits(n) == <<Digits[((n \div 10) % 10) + 1], Digits[(n % 10) + 1]>>

FourDigits(n) == TwoDigits(n \div 100) \o TwoDigits(n % 100)

\* chrono writes RFC 3339: 2025-06-29T22:44:14Z (years 0..9999)
FormatRfc3339(dt) ==
    FourDigits(dt[1]) \o <<"-">> \o TwoDigits(dt[2]) \o <<"-">>
    \o TwoDigits(dt[3]) \o <<"T">> \o TwoDigits(dt[4]) \o <<":">>
    \o TwoDigits(dt[5]) \o <<":">> \o TwoDigits(dt[6]) \o <<"Z">>

\* #[derive(Serialize)] on a unit-variant enum writes the variant's name
VariantName(e) ==
    CASE e = "NotConfigured" ->
             <<"N", "o", "t", "C", "o", "n", "f", "i", "g", "u", "r", "e", "d">>
      [] e = "InProgress" -> <<"I", "n", "P", "r", "o", "g", "r", "e", "s", "s">>
      [] e = "Success" -> <<"S", "u", "c", "c", "e", "s", "s">>
      [] e = "Error" -> <<"E", "r", "r", "o", "r">>

SerializeValue(v) ==
    CASE v.t = "String" -> JStr(v.s)
      [] v.t \in {"u64", "u32"} -> JUint(v.n)
      [] v.t = "i64" -> IF v.n < 0 THEN JNint(v.n) ELSE JUint(v.n)
      [] v.t = "f64" -> JFloat(v.n)
      [] v.t = "DateTime" -> JStr(FormatRfc3339(v.dt))
      [] v.t = "Status" -> JStr(VariantName(v.e))
      [] v.t = "None" -> JNull

\* serde_json::to_string(&LocalSensorData): every field under its key
to_string(data) ==
    [k \in Keys |->
        IF k = UnknownKey THEN JMissing
        ELSE SerializeValue(data[CHOOSE f \in Fields : KeyOf(f) = k])]

----------------------------------------------------------------------------
(* Documents: a document as the device sends it, and the variations of it  *)
(* presented to the decoder.                                               *)

EmptyDoc == [k \in Keys |-> JMissing]

\* "84:f3"
SensorIdA == <<"8", "4", ":", "f", "3">>
\* "rgb(19,230,0)"
AqiColourA ==
    <<"r", "g", "b", "(", "1", "9", ",", "2", "3", "0", ",", "0", ")">>

\* the value of field f in the document DocA
DocAValue(f) ==
    CASE f = "sensor_id" -> JStr(SensorIdA)
      [] f = "date_time" -> JStr(DtExample)
      [] f = "hardware_discovered" -> JStr(HwExample)
      [] f = "hardware_version" -> JStr(<<"2", ".", "0">>)
      [] f = "version" -> JStr(<<"7", ".", "0", "2">>)
      [] f \in {"p25aqic", "p25aqic_b"} -> JStr(AqiColourA)
      [] f \in StringFields \cup OptionStringFields -> JStr(<<"o", "k">>)
      [] f = "rssi" -> JNint(-62)
      [] f = "period" -> JUint(120)
      [] f = "current_temp_f" -> JUint(84)
      [] f = "current_humidity" -> JUint(27)
      [] f = "current_dewpoint_f" -> JUint(46)
      [] f = "pressure" -> JFloat(10125)
      [] f \in {"pm2_5_aqi", "pm2_5_aqi_b"} -> JUint(21)
      [] f \in {"lat", "lon"} -> JFloat(-1219)
      [] f \in F64Fields \cup OptionF64Fields -> JFloat(53)
      [] f \in U64Fields -> JUint(20152)
      [] f \in {"status_tsa", "status_tss_a", "status_tsb", "status_tss_b"} ->
             JUint(0)
      [] f = "status_for_processor_2" -> JUint(3)
      [] f = "status_loc" -> JUint(1)
      [] OTHER -> JUint(2)

DocA ==
    [k \in Keys |->
        IF k = UnknownKey THEN JUint(631)
        ELSE DocAValue(CHOOSE f \in Fields : KeyOf(f) = k)]

\* a later reading of the same device: "2025/06/29T22:44:15z" and 85 F
DocB ==
    [DocA EXCEPT !["DateTime"] = JStr(SubSeq(DtExample, 1, 17) \o <<"1", "5", "z">>),
                 !["Id"] = JUint(20153),
                 !["current_temp_f"] = JUint(85)]

\* a device with no particulate sensors and no data processor
DocBare ==
    [k \in Keys |->
        IF \E f \in ChannelAFields \cup ChannelBFields \cup OptionStatusFields
                    \cup OptionStringInfoFields : KeyOf(f) = k
        THEN JMissing
        ELSE DocA[k]]

Without(d, fs) ==
    [k \in Keys |-> IF \E f \in fs : KeyOf(f) = k THEN JMissing ELSE d[k]]

\* the subsets of S of at most k elements
RECURSIVE SubsetsUpTo(_, _)
SubsetsUpTo(S, k) ==
    IF k = 0 THEN {{}}
    ELSE LET smaller == SubsetsUpTo(S, k - 1)
         IN  smaller \cup {T \cup {x} : T \in smaller, x \in S}

\* values a status key is given
StatusValues ==
    {JMissing, JNull, JUint(0), JUint(1), JUint(2), JUint(3), JUint(4),
     JUint(256), JUint(258), JNint(-1), JStr(<<"2">>)}

DocInputs ==
    \* optional keys removed, a few at a time and by whole groups
    {Without(DocA, fs) : fs \in SubsetsUpTo(OptionFields, MaxRemoved)}
    \cup {Without(DocA, ChannelAFields), Without(DocA, ChannelBFields),
          Without(DocA, ChannelAFields \cup ChannelBFields),
          Without(DocA, HardwareFields), Without(DocA, OptionFields),
          DocB, DocBare}
    \* one mandatory key removed, alone and with an optional one
    \cup {Without(DocA, {f}) : f \in MandatoryFields}
    \cup {Without(DocA, {f, "current_temp_f"}) : f \in MandatoryFields}
    \* one key set to null, to a string, to a negative number
    \cup {[DocA EXCEPT ![k] = j] :
             k \in Keys, j \in {JNull, JStr(<<"2">>), JNint(-1), JFloat(15)}}
    \* the status keys
    \cup {[DocA EXCEPT !["status_6"] = a, !["status_10"] = b] :
             a \in StatusValues, b \in StatusValues}
    \cup {[DocBare EXCEPT !["status_0"] = a, !["status_6"] = b] :
             a \in StatusValues, b \in StatusValues}
    \* the timestamp
    \cup {[DocA EXCEPT !["DateTime"] = JStr(s)] :
             s \in {SubSeq(DtExample, 1, 19),
                    DtExample \o <<"z">>,
                    SubSeq(DtExample, 1, 19) \o <<"Z">>,
                    <<"2", "0", "2", "5", "-", "0", "6", "-", "2", "9", "T",
                      "2", "2", ":", "4", "4", ":", "1", "4", "z">>}}

DocNotRun == [fn |-> "none", r |-> DataErr("")]
WireNotRun == [fn |-> "none", r |-> EmptyDoc]

DocInit ==
    /\ doc \in DocInputs
    /\ decoded = DocNotRun
    /\ wire = WireNotRun
    /\ redecoded = DocNotRun

DocIdle ==
    /\ doc = EmptyDoc
    /\ decoded = DocNotRun
    /\ wire = WireNotRun
    /\ redecoded = DocNotRun

\* serde_json::from_str on the document
CallFromStr ==
    /\ decoded = DocNotRun
    /\ decoded' = [fn |-> "from_str", r |-> from_str(doc)]
    /\ UNCHANGED <<doc, wire, redecoded>>

\* the decoded value is encoded with its own Serialize ...
CallToString ==
    /\ decoded.fn = "from_str"
    /\ decoded.r.ok
    /\ wire = WireNotRun
    /\ wire' = [fn |-> "to_string", r |-> to_string(decoded.r.data)]
    /\ UNCHANGED <<doc, decoded, redecoded>>

\* ... and the output decoded with its own Deserialize
CallFromStrOnWire ==
    /\ wire.fn = "to_string"
    /\ redecoded = DocNotRun
    /\ redecoded' = [fn |-> "from_str", r |-> from_str(wire.r)]
    /\ UNCHANGED <<doc, decoded, wire>>

----------------------------------------------------------------------------
(* PurpleAir and the event loop that drives it (src/main.rs:13-16 and      *)
(* 170-228).  The framework delivers Initialized once, runs each future    *)
(* handed to event_mut().future and delivers its result as a UserMessage;  *)
(* view runs between messages once Initialized has been handled.           *)
(*   sensor_data   PurpleAir::sensor_data, an Option<LocalSensorData>      *)
(*   futures       the futures handed to the framework and not yet ended   *)
(*   mailbox       the messages not yet handed to update                   *)
(*   running       FALSE once a panic has taken the process down           *)
(*   initialized   update has returned from the Initialized message        *)
(*   fetches       background fetches completed (bounded by MaxFetches)    *)
(*   applied       the number of the fetch whose snapshot is held          *)
(*   lastEvent     what the last step did                                  *)
(*   lastDecoded   the last snapshot a fetch decoded                       *)
(*   rendered      the "Devices" text view produced last                   *)

None == [some |-> FALSE, data |-> NoSnapshot]
Some(data) == [some |-> TRUE, data |-> data]

\* what a GET of the device's URL ends in: the transport fails, or a body
TransportFailure == [arrived |-> FALSE, body |-> EmptyDoc]
Body(d) == [arrived |-> TRUE, body |-> d]

Responses ==
    {TransportFailure, Body(DocA), Body(DocB), Body(DocBare),
     Body(Without(DocA, {"sensor_id"})),
     Body([DocA EXCEPT !["status_0"] = JUint(7)])}

\* reqwest get(url), text() and serde_json::from_str, before the unwraps
FetchAndDecode(resp) ==
    IF resp.arrived THEN from_str(resp.body) ELSE DataErr("transport")

Initialized == [kind |-> "Initialized", data |-> NoSnapshot, seq |-> 0]
UserMessage(data, n) == [kind |-> "UserMessage", data |-> data, seq |-> n]

\* the future of lines 210-214 starts with its fetch, that of lines
\* 220-225 with the 10 second sleep
FirstFuture == [pc |-> "fetch", slept |-> FALSE]
NextFuture == [pc |-> "sleep", slept |-> FALSE]

Remove(s, i) == SubSeq(s, 1, i - 1) \o SubSeq(s, i + 1, Len(s))

LoopInit ==
    /\ sensor_data = None
    /\ futures = <<>>
    /\ mailbox = <<Initialized>>
    /\ running = TRUE
    /\ initialized = FALSE
    /\ fetches = 0
    /\ applied = 0
    /\ lastEvent = "start"
    /\ lastDecoded = NoSnapshot
    /\ rendered = <<>>

LoopIdle ==
    /\ sensor_data = None
    /\ futures = <<>>
    /\ mailbox = <<>>
    /\ running = FALSE
    /\ initialized = FALSE
    /\ fetches = 0
    /\ applied = 0
    /\ lastEvent = "start"
    /\ lastDecoded = NoSnapshot
    /\ rendered = <<>>

\* a plausible slip: the first snapshot is left to the background fetch
UpdateInitializedNotStoring ==
    /\ running
    /\ mailbox # <<>>
    /\ Head(mailbox).kind = "Initialized"
    /\ mailbox' = Tail(mailbox)
    /\ futures' = Append(futures, FirstFuture)
    /\ initialized' = TRUE
    /\ lastEvent' = "initialized"
    /\ UNCHANGED <<sensor_data, running, fetches, applied, lastDecoded,
                   rendered>>

\* update, first branch (lines 205-215): the blocking fetch and decode; a
\* failure panics on the caller's thread and the process ends
UpdateInitialized ==
    /\ running
    /\ mailbox # <<>>
    /\ Head(mailbox).kind = "Initialized"
    /\ mailbox' = Tail(mailbox)
    /\ \E resp \in Responses :
          LET r == FetchAndDecode(resp)
          IN  IF r.ok
              THEN /\ sensor_data' = Some(r.data)
                   /\ futures' = Append(futures, FirstFuture)
                   /\ initialized' = TRUE
                   /\ lastDecoded' = r.data
                   /\ lastEvent' = "initialized"
                   /\ UNCHANGED running
              ELSE /\ running' = FALSE
                   /\ lastEvent' = "update_panicked"
                   /\ UNCHANGED <<sensor_data, futures, initialized,
                                  lastDecoded>>
    /\ UNCHANGED <<fetches, applied, rendered>>

\* a plausible slip: the follow-up fetches at once, the sleep left out
UpdateUserMessageNoWait ==
    /\ running
    /\ mailbox # <<>>
    /\ Head(mailbox).kind = "UserMessage"
    /\ mailbox' = Tail(mailbox)
    /\ sensor_data' = Some(Head(mailbox).data)
    /\ applied' = Head(mailbox).seq
    /\ futures' = Append(futures, FirstFuture)
    /\ lastEvent' = "delivered"
    /\ UNCHANGED <<running, initialized, fetches, lastDecoded, rendered>>

\* a plausible slip: the follow-up is scheduled without ending the one
\* before it, as a timer that also re-arms itself would
UpdateUserMessageTwice ==
    /\ running
    /\ mailbox # <<>>
    /\ Head(mailbox).kind = "UserMessage"
    /\ mailbox' = Tail(mailbox)
    /\ sensor_data' = Some(Head(mailbox).data)
    /\ applied' = Head(mailbox).seq
    /\ futures' = futures \o <<NextFuture, NextFuture>>
    /\ lastEvent' = "delivered"
    /\ UNCHANGED <<running, initialized, fetches, lastDecoded, rendered>>

\* update, second branch (lines 217-226): the delivered snapshot replaces
\* the held one and one follow-up future is scheduled
UpdateUserMessage ==
    /\ running
    /\ mailbox # <<>>
    /\ Head(mailbox).kind = "UserMessage"
    /\ mailbox' = Tail(mailbox)
    /\ sensor_data' = Some(Head(mailbox).data)
    /\ applied' = Head(mailbox).seq
    /\ futures' = Append(futures, NextFuture)
    /\ lastEvent' = "delivered"
    /\ UNCHANGED <<running, initialized, fetches, lastDecoded, rendered>>

\* tokio::time::sleep(10 s) of line 221 returns
SleepElapses ==
    /\ running
    /\ \E i \in 1..Len(futures) :
          /\ futures[i].pc = "sleep"
          /\ futures' = [futures EXCEPT ![i] = [pc |-> "fetch", slept |-> TRUE]]
    /\ lastEvent' = "woke"
    /\ UNCHANGED <<sensor_data, mailbox, running, initialized, fetches,
                   applied, lastDecoded, rendered>>

\* a plausible slip: a failed cycle delivers an empty value in place of data
FutureFailsDeliveringDefault ==
    /\ running
    /\ fetches < MaxFetches
    /\ \E i \in 1..Len(futures), resp \in Responses :
          /\ futures[i].pc = "fetch"
          /\ ~FetchAndDecode(resp).ok
          /\ futures' = Remove(futures, i)
    /\ fetches' = fetches + 1
    /\ mailbox' = Append(mailbox, UserMessage(NoSnapshot, fetches + 1))
    /\ lastEvent' = "cycle_failed"
    /\ UNCHANGED <<sensor_data, running, initialized, applied, lastDecoded,
                   rendered>>

\* the fetch and decode of a future succeed: Event::async_result(sensor_data)
FutureDelivers ==
    /\ running
    /\ fetches < MaxFetches
    /\ \E i \in 1..Len(futures), resp \in Responses :
          LET r == FetchAndDecode(resp)
          IN  /\ futures[i].pc = "fetch"
              /\ r.ok
              /\ futures' = Remove(futures, i)
              /\ mailbox' = Append(mailbox, UserMessage(r.data, fetches + 1))
              /\ lastDecoded' = r.data
    /\ fetches' = fetches + 1
    /\ lastEvent' = "fetched"
    /\ UNCHANGED <<sensor_data, running, initialized, applied, rendered>>

\* the fetch or the decode of a future fails: an unwrap of lines 211-212 or
\* 222-223 panics inside the future, which ends without a result; whether
\* the panic also ends the process depends on the build (panic = "abort")
FutureFails ==
    /\ running
    /\ fetches < MaxFetches
    /\ \E i \in 1..Len(futures), resp \in Responses :
          /\ futures[i].pc = "fetch"
          /\ ~FetchAndDecode(resp).ok
          /\ futures' = Remove(futures, i)
    /\ fetches' = fetches + 1
    /\ running' \in {TRUE, FALSE}
    /\ lastEvent' = "cycle_failed"
    /\ UNCHANGED <<sensor_data, mailbox, initialized, applied, lastDecoded,
                   rendered>>

\* view (lines 175-201): unwraps the held snapshot and renders it; of the
\* rendering the model keeps the "Devices" text
View ==
    /\ running
    /\ initialized
    /\ IF sensor_data.some
       THEN /\ rendered' = join_comma(hardware_on_the_board(
                               sensor_data.data["hardware_discovered"].s))
            /\ lastEvent' = "viewed"
            /\ UNCHANGED running
       ELSE /\ running' = FALSE
            /\ lastEvent' = "view_panicked"
            /\ UNCHANGED rendered
    /\ UNCHANGED <<sensor_data, futures, mailbox, initialized, fetches,
                   applied, lastDecoded>>

----------------------------------------------------------------------------
(* Specifications.                                                         *)

\* the refresh loop
Init == LoopInit /\ StatusIdle /\ DtIdle /\ DocIdle /\ HwIdle

Next ==
    \/ UpdateInitialized /\ UNCHANGED <<statusVars, dtVars, docVars, hwVars>>
    \/ UpdateUserMessage /\ UNCHANGED <<statusVars, dtVars, docVars, hwVars>>
    \/ SleepElapses /\ UNCHANGED <<statusVars, dtVars, docVars, hwVars>>
    \/ FutureDelivers /\ UNCHANGED <<statusVars, dtVars, docVars, hwVars>>
    \/ FutureFails /\ UNCHANGED <<statusVars, dtVars, docVars, hwVars>>
    \/ View /\ UNCHANGED <<statusVars, dtVars, docVars, hwVars>>

Spec == Init /\ [][Next]_vars

\* the status decoders, on every input of StatusInputs
InitStatus == StatusInit /\ LoopIdle /\ DtIdle /\ DocIdle /\ HwIdle

NextStatus ==
    \/ CallParseStatus /\ UNCHANGED <<loopVars, dtVars, docVars, hwVars>>
    \/ CallParseOptionalStatus
       /\ UNCHANGED <<loopVars, dtVars, docVars, hwVars>>

SpecStatus == InitStatus /\ [][NextStatus]_vars

\* the timestamp decoder, on every input of DtInputs
InitDt == DtInit /\ LoopIdle /\ StatusIdle /\ DocIdle /\ HwIdle

NextDt == CallParseDatetime /\ UNCHANGED <<loopVars, statusVars, docVars, hwVars>>

SpecDt == InitDt /\ [][NextDt]_vars

\* decode, encode and decode again, on every document of DocInputs
InitDoc == DocInit /\ LoopIdle /\ StatusIdle /\ DtIdle /\ HwIdle

NextDoc ==
    \/ CallFromStr /\ UNCHANGED <<loopVars, statusVars, dtVars, hwVars>>
    \/ CallToString /\ UNCHANGED <<loopVars, statusVars, dtVars, hwVars>>
    \/ CallFromStrOnWire /\ UNCHANGED <<loopVars, statusVars, dtVars, hwVars>>

SpecDoc == InitDoc /\ [][NextDoc]_vars

\* the hardware list, on every input of HwInputs
InitHw == HwInit /\ LoopIdle /\ StatusIdle /\ DtIdle /\ DocIdle

NextHw == CallHardwareOnTheBoard /\ UNCHANGED <<loopVars, statusVars, dtVars, docVars>>

SpecHw == InitHw /\ [][NextHw]_vars

----------------------------------------------------------------------------
(* Properties.                                                             *)

StatusOfNumber(n) ==
    CASE n = 0 -> "NotConfigured"
      [] n = 1 -> "InProgress"
      [] n = 2 -> "Success"
      [] n = 3 -> "Error"

\* C1: an unsigned integer presented to a status field decodes to
\* NotConfigured, InProgress, Success, Error for 0, 1, 2, 3 and fails for
\* every other integer, whatever its magnitude.
C1_StatusIsClosedSet ==
    (status_out.fn # "none" /\ status_in.t = "uint") =>
        IF status_in.n \in 0..3
        THEN status_out.r = Ok(VStatus(StatusOfNumber(status_in.n)))
        ELSE ~status_out.r.ok

\* one trailing 'z' removed, if there is one
StripOneZ(s) ==
    IF s # <<>> /\ s[Len(s)] = "z" THEN SubSeq(s, 1, Len(s) - 1) ELSE s

\* C2: the timestamp decoder removes exactly one trailing 'z' and parses
\* the remainder against %Y/%m/%dT%H:%M:%S: the example decodes to
\* 2025-06-29T22:44:14, and an input whose remainder after removing one
\* 'z' does not match the pattern (a second 'z' included) fails.
C2_StripsExactlyOneZ ==
    dt_out.fn # "none" =>
        /\ dt_in = DtExample =>
               dt_out.r = Ok(VDateTime(<<2025, 6, 29, 22, 44, 14>>))
        /\ dt_out.r.ok = parse_from_str(StripOneZ(dt_in)).ok

\* C3: a LocalSensorData encoded with its own Serialize and decoded with
\* its own Deserialize comes back, equal to the original.
C3_RoundTrip ==
    redecoded.fn # "none" =>
        /\ redecoded.r.ok
        /\ redecoded.r.data = decoded.r.data

IsUserMessage(m) == m.kind = "UserMessage"

\* fetches scheduled, sleeping or in flight, and results not yet handled
Outstanding == Len(futures) + Len(SelectSeq(mailbox, IsUserMessage))

\* C4: a failed polling cycle does not end the refresh loop: after the
\* failure a later fetch is still scheduled.
C4_FailureKeepsLoopScheduled ==
    lastEvent = "cycle_failed" => Outstanding >= 1

\* C5: once Initialized has been handled the held snapshot is Some, view
\* never finds it empty, and it never returns to None.
C5_NeverEmptyAfterStartup ==
    /\ [](initialized => sensor_data.some)
    /\ [](lastEvent # "view_panicked")
    /\ [][sensor_data.some => sensor_data'.some]_vars

C5_Witness ==
    /\ initialized
    /\ lastEvent = "viewed"
    /\ applied >= 1
    /\ sensor_data.some

\* C6: at most one background fetch is outstanding at any time, a result
\* waiting to be handled included; a waiting result is that of the latest
\* fetch and newer than the snapshot held, so snapshots arrive in
\* fetch-completion order.
C6_OneOutstandingFetch ==
    /\ Outstanding <= 1
    /\ applied <= fetches
    /\ \A i \in 1..Len(mailbox) :
          IsUserMessage(mailbox[i]) =>
              (mailbox[i].seq = fetches /\ applied < mailbox[i].seq)

C6_Witness ==
    /\ Len(futures) = 1
    /\ futures[1].pc = "sleep"
    /\ applied >= 2

\* the snapshots a response of the device decodes to
DecodableSnapshots ==
    {from_str(resp.body).data :
        resp \in {r \in Responses : r.arrived /\ from_str(r.body).ok}}

\* C7: the held snapshot changes only when a successfully decoded snapshot
\* is stored; a cycle that fails leaves it as it was, equal to the last
\* snapshot decoded.
C7_ChangesOnlyOnSuccess ==
    [][/\ sensor_data' # sensor_data =>
            /\ lastEvent' \in {"initialized", "delivered"}
            /\ sensor_data'.some
            /\ sensor_data'.data = lastDecoded'
            /\ sensor_data'.data \in DecodableSnapshots
       /\ lastEvent' \in {"cycle_failed", "update_panicked"} =>
            /\ sensor_data' = sensor_data
            /\ sensor_data.some => sensor_data.data = lastDecoded]_vars

C7_Witness ==
    /\ lastEvent = "cycle_failed"
    /\ sensor_data.some
    /\ applied >= 1
    /\ sensor_data.data = lastDecoded

\* the snapshot DocA decodes to
SnapshotA == from_str(DocA).data

\* the hardware-dependent fields whose key the document lacks
RemovedReadings(d) == {f \in HardwareFields : d[KeyOf(f)] = JMissing}

\* C8: a document lacking a mandatory key fails to decode and yields no
\* snapshot; DocA with any set of hardware-dependent keys removed decodes,
\* with exactly those fields None and every other field as DocA decodes it.
C8_AllOrNothingAndOptionalReadings ==
    decoded.fn # "none" =>
        /\ (\E f \in MandatoryFields : doc[KeyOf(f)] = JMissing) =>
               (~decoded.r.ok /\ decoded.r.data = NoSnapshot)
        /\ ~decoded.r.ok => decoded.r.data = NoSnapshot
        /\ doc = Without(DocA, RemovedReadings(doc)) =>
               /\ decoded.r.ok
               /\ \A f \in RemovedReadings(doc) : decoded.r.data[f] = VNone
               /\ \A f \in Fields \ RemovedReadings(doc) :
                      /\ decoded.r.data[f] = SnapshotA[f]
                      /\ decoded.r.data[f] # VNone

C8_Witness ==
    /\ decoded.fn # "none"
    /\ decoded.r.ok
    /\ RemovedReadings(doc) = ChannelAFields \cup ChannelBFields
    /\ doc = Without(DocA, RemovedReadings(doc))
    /\ decoded.r.data["pm2_5_aqi"] = VNone
    /\ decoded.r.data["current_temp_f"] = VU64(84)

\* the "+" characters of s
PlusCount(s) == Cardinality({i \in 1..Len(s) : s[i] = "+"})

\* the elements of v with a "+" between each two
RECURSIVE JoinPlus(_)
JoinPlus(v) ==
    CASE v = <<>> -> <<>>
      [] Len(v) = 1 -> v[1]
      [] OTHER -> v[1] \o <<"+">> \o JoinPlus(Tail(v))

\* C9: hardware_on_the_board drops everything up to the first '+' and
\* returns the rest split on every '+', in order; the example gives
\* [BME280, PMSX003-A, PMSX003-B]; an input with no '+' gives the empty
\* sequence.
C9_HardwareList ==
    hw_out.fn # "none" =>
        /\ hw_in = HwExample => hw_out.r = HwExampleList
        /\ PlusCount(hw_in) = 0 => hw_out.r = <<>>
        /\ PlusCount(hw_in) > 0 =>
               /\ \A i \in 1..Len(hw_out.r) : PlusCount(hw_out.r[i]) = 0
               /\ hw_out.r # <<>>
               /\ \E k \in 1..Len(hw_in) :
                      /\ hw_in[k] = "+"
                      /\ PlusCount(SubSeq(hw_in, 1, k - 1)) = 0
                      /\ JoinPlus(hw_out.r) = SubSeq(hw_in, k + 1, Len(hw_in))

C9_Witness ==
    /\ hw_out.fn # "none"
    /\ hw_in = HwExample
    /\ Len(hw_out.r) = 3

\* C10: an optional status field whose key is missing or whose value is
\* null decodes to None, and the decode succeeds exactly when it succeeds
\* with a valid status in that place.
C10_OptionalStatusAbsent ==
    decoded.fn # "none" =>
        \A f \in OptionStatusFields :
            doc[KeyOf(f)] \in {JMissing, JNull} =>
                /\ decoded.r.ok => decoded.r.data[f] = VNone
                /\ decoded.r.ok = from_str([doc EXCEPT ![KeyOf(f)] = JUint(2)]).ok

C10_Witness ==
    /\ decoded.fn # "none"
    /\ decoded.r.ok
    /\ doc["status_6"] = JMissing
    /\ doc["status_10"] = JNull
    /\ decoded.r.data["status_for_processor_1"] = VNone
    /\ decoded.r.data["status_for_processor_2"] = VNone

\* the futures that are fetching
Fetching(fs) == {i \in 1..Len(fs) : fs[i].pc = "fetch"}

\* C11: handling a delivered snapshot replaces the held snapshot with the
\* delivered value, whole, and schedules exactly one follow-up, which
\* starts in its 10 second sleep; a fetch starts only when that sleep has
\* elapsed, except the first background fetch, which the Initialized
\* branch starts before any delivery.
C11_DeliverThenWaitThenFetch ==
    /\ [][(/\ mailbox # <<>>
           /\ IsUserMessage(Head(mailbox))
           /\ mailbox' = Tail(mailbox)) =>
             /\ sensor_data' = Some(Head(mailbox).data)
             /\ futures' = Append(futures, [pc |-> "sleep", slept |-> FALSE])]_vars
    /\ [][\A i \in Fetching(futures') :
             (i \notin Fetching(futures) /\ Len(futures') >= Len(futures)) =>
                 \/ /\ i <= Len(futures)
                    /\ futures[i].pc = "sleep"
                    /\ futures'[i].slept
                    /\ lastEvent' = "woke"
                 \/ /\ ~initialized
                    /\ initialized'
                    /\ applied = 0
                    /\ fetches = 0]_vars
    /\ [](\A i \in Fetching(futures) :
             ~futures[i].slept => (applied = 0 /\ fetches = 0))

C11_Witness ==
    /\ Len(futures) = 1
    /\ futures[1].pc = "fetch"
    /\ futures[1].slept
    /\ applied >= 1
    /\ sensor_data = Some(lastDecoded)

\* C12: an input with k >= 1 '+' characters gives exactly k elements,
\* empty ones included ("2.0+" gives one empty identifier); the text
\* before the first '+', a '+' and the elements joined by '+' give the
\* input back; the result is empty exactly when the input has no '+'.
C12_OneElementPerPlus ==
    hw_out.fn # "none" =>
        /\ Len(hw_out.r) = PlusCount(hw_in)
        /\ (hw_out.r = <<>>) <=> (PlusCount(hw_in) = 0)
        /\ hw_in = HwTagOnly => hw_out.r = << <<>> >>
        /\ PlusCount(hw_in) >= 1 =>
               LET k == CHOOSE i \in 1..Len(hw_in) :
                            /\ hw_in[i] = "+"
                            /\ \A j \in 1..(i - 1) : hw_in[j] # "+"
               IN  SubSeq(hw_in, 1, k - 1) \o <<"+">> \o JoinPlus(hw_out.r)
                       = hw_in

C12_Witness ==
    /\ hw_out.fn # "none"
    /\ hw_in = HwTagOnly
    /\ hw_out.r = << <<>> >>

====
